---- MODULE Spec2Model ----
(***************************************************************************)
(* Model of scripts/dependency-arb.py: the robust (cutting-plane)          *)
(* dependency-arbitrage solve.  One behaviour is one run of main() on one  *)
(* input payload.                                                          *)
(*                                                                         *)
(* Units.  Money is counted in ticks of 1/Unit: a token that wins pays     *)
(* Unit ticks per share, a price of 0.30 is 30 ticks when Unit = 100.      *)
(* Quantities are whole shares, so the optimizer's continuous variables    *)
(* range over the integer points of their boxes.  The two solvers are the  *)
(* libraries' contracts: CP-SAT returns an optimal assignment (status      *)
(* OPTIMAL), any assignment satisfying the constraints (status FEASIBLE,   *)
(* what a time limit produces), or no assignment; CBC returns an optimal   *)
(* point of the program or no solution.                                    *)
(***************************************************************************)
EXTENDS Integers, Sequences, FiniteSets, TLC

\* ------------------------------------------------------------------ bounds
Unit == 100
MaxSize == 2
MaxIter == 2

\* ------------------------------------------------------- program constants
\* The two sentinels keep the digits of the source and are read in ticks, which
\* keeps them within 32-bit integers.  What main() relies on is kept:
\* BestProfitFloor lies below every value profit_var can take.
\* profit_var = solver.NumVar(-1e6, 1e6, "profit")
ProfitBound == 1000000
\* best_profit = -1e9
BestProfitFloor == 1000000000
\* fee_bps / 10000.0 and slippageBps / 10000.0
BpsDenominator == 10000

\* ---------------------------------------------------------------- helpers
RECURSIVE SumSeq(_)
SumSeq(s) == IF s = <<>> THEN 0 ELSE Head(s) + SumSeq(Tail(s))

SetMax(S) == CHOOSE m \in S : \A n \in S : n <= m

SetMin(S) == CHOOSE m \in S : \A n \in S : m <= n

Range(s) == {s[i] : i \in DOMAIN s}

\* a membership test that never finds the element
InListNever(x, s) == FALSE

\* "x in list" for Python lists, by value
InList(x, s) == \E i \in DOMAIN s : s[i] = x

\* dict.get(cid, 0) on an outcome
OutcomeGet(outcome, cid) == IF cid \in DOMAIN outcome THEN outcome[cid] ELSE 0

\* ------------------------------------------------------- constraint model
GroupTypes == {"one_of", "at_most", "at_least"}

\* sum(x[i] for i in ids), ids without repetition
SumIds(x, ids) == Cardinality({i \in ids : x[i] = 1})

\* x[i] raises KeyError when a typed, non-empty group names an id that is
\* not a condition id: the generator sum(x[i] for i in ids) is evaluated
\* without a membership test (the relations do test "a in x and b in x").
GroupKeyError(dom, g) ==
    /\ g.conditionIds # {}
    /\ g.type \in GroupTypes
    /\ ~(g.conditionIds \subseteq dom)

AddConstraintsRaises(dom, constraints) ==
    \E i \in DOMAIN constraints.groups : GroupKeyError(dom, constraints.groups[i])

\* the group constraints with every lower bound on the sum left out
GroupHoldsNoLowerBound(x, g) ==
    IF g.conditionIds = {} THEN TRUE
    ELSE CASE g.type = "one_of" -> SumIds(x, g.conditionIds) <= 1
           [] g.type = "at_most" -> SumIds(x, g.conditionIds) <= g.k
           [] g.type = "at_least" -> TRUE
           [] OTHER -> TRUE

\* the constraint one group adds to the CP model
GroupHolds(x, g) ==
    IF g.conditionIds = {} THEN TRUE
    ELSE CASE g.type = "one_of" -> SumIds(x, g.conditionIds) = 1
           [] g.type = "at_most" -> SumIds(x, g.conditionIds) <= g.k
           [] g.type = "at_least" -> SumIds(x, g.conditionIds) >= g.k
           [] OTHER -> TRUE

\* the constraint one relation adds to the CP model
RelationHolds(x, rel) ==
    CASE rel.type = "implies" ->
            (rel.a \in DOMAIN x /\ rel.b \in DOMAIN x) => x[rel.a] <= x[rel.b]
      [] rel.type = "mutual_exclusive" ->
            (rel.a \in DOMAIN x /\ rel.b \in DOMAIN x) => x[rel.a] + x[rel.b] <= 1
      [] OTHER -> TRUE

AddConstraints(x, constraints) ==
    /\ \A i \in DOMAIN constraints.groups : GroupHolds(x, constraints.groups[i])
    /\ \A i \in DOMAIN constraints.relations : RelationHolds(x, constraints.relations[i])

\* the assignments the CP model admits: one BoolVar per condition id
CpSolutions(ids, constraints) ==
    {x \in [Range(ids) -> {0, 1}] : AddConstraints(x, constraints)}

\* expr = sum(x[cid] for cid in cond_ids)
SumAll(ids, x) == SumSeq([i \in DOMAIN ids |-> x[ids[i]]])

\* what _solve_outcome may return as an outcome under a solver status
SolveOutcome(ids, constraints, target, status) ==
    LET sols == CpSolutions(ids, constraints)
    IN  CASE status = "OPTIMAL" ->
               IF target = "min"
               THEN {x \in sols : \A y \in sols : SumAll(ids, x) <= SumAll(ids, y)}
               ELSE {x \in sols : \A y \in sols : SumAll(ids, x) >= SumAll(ids, y)}
          [] status = "FEASIBLE" -> sols
          [] OTHER -> {}

\* coeffs[cid] with the NO deltas added instead of subtracted
WorstCoeffUnsigned(cid, token_positions) ==
    SumSeq([i \in DOMAIN token_positions |->
              IF token_positions[i].conditionId # cid THEN 0
              ELSE token_positions[i].delta])

\* coeffs[cid] after the loop over token_positions
WorstCoeff(cid, token_positions) ==
    SumSeq([i \in DOMAIN token_positions |->
              IF token_positions[i].conditionId # cid THEN 0
              ELSE IF token_positions[i].outcome = "YES"
                   THEN token_positions[i].delta
                   ELSE 0 - token_positions[i].delta])

\* int(round(coeff * scale)) on whole-share deltas
ScaledCoeff(coeff, scale) == coeff * scale

\* the objective of _solve_worst_outcome at assignment x
WorstObjective(ids, token_positions, scale, x) ==
    SumSeq([i \in DOMAIN ids |->
              IF \E j \in 1..(i - 1) : ids[j] = ids[i] THEN 0
              ELSE ScaledCoeff(WorstCoeff(ids[i], token_positions), scale) * x[ids[i]]])

\* what _solve_worst_outcome may return as an outcome under a solver status
SolveWorstOutcome(ids, constraints, token_positions, scale, status) ==
    LET sols == CpSolutions(ids, constraints)
        obj == [x \in sols |-> WorstObjective(ids, token_positions, scale, x)]
    IN  CASE status = "OPTIMAL" -> {x \in sols : \A y \in sols : obj[x] <= obj[y]}
          [] status = "FEASIBLE" -> sols
          [] OTHER -> {}

\* _evaluate_payoff, in ticks
EvaluatePayoff(token_positions, outcome) ==
    SumSeq([i \in DOMAIN token_positions |->
              IF token_positions[i].outcome = "YES"
              THEN token_positions[i].delta * Unit
                     * OutcomeGet(outcome, token_positions[i].conditionId)
              ELSE token_positions[i].delta * Unit
                     * (1 - OutcomeGet(outcome, token_positions[i].conditionId))])

\* ------------------------------------------------------ portfolio optimizer
Max2(a, b) == IF a >= b THEN a ELSE b

\* upper bound of buy_var without the zeroing on ask <= 0
BuyUpperAnyPrice(tok) == tok.askSize

\* upper bound of buy_var: ask_size, zeroed when ask <= 0
BuyUpper(tok) == IF tok.ask <= 0 THEN 0 ELSE tok.askSize

\* upper bound of sell_var: bid_size, zeroed when bid <= 0 or not allow_sells
SellUpper(tok, settings) ==
    IF tok.bid <= 0 \/ ~settings.allowSells THEN 0 ELSE tok.bidSize

\* _calc_fee with feeCurveRate = 0: the flat proportion of price
CalcFee(price, fee_bps) ==
    IF price <= 0 \/ fee_bps <= 0 THEN 0 ELSE (price * fee_bps) \div BpsDenominator

TokenFeeBps(tok, settings) == Max2(tok.feeBps, settings.feeBps)

BuyCost(tok, settings) ==
    tok.ask + CalcFee(tok.ask, TokenFeeBps(tok, settings))
            + (tok.ask * settings.slippageBps) \div BpsDenominator

SellRev(tok, settings) ==
    tok.bid - CalcFee(tok.bid, TokenFeeBps(tok, settings))
            - (tok.bid * settings.slippageBps) \div BpsDenominator

\* cost_expr at an allocation
CostExpr(tokens, alloc, settings) ==
    SumSeq([i \in DOMAIN tokens |->
              alloc[i].buy * BuyCost(tokens[i], settings)
                - alloc[i].sell * SellRev(tokens[i], settings)])

\* sum(notional_terms) at an allocation
NotionalExpr(tokens, alloc) ==
    SumSeq([i \in DOMAIN tokens |->
              IF tokens[i].ask > 0 THEN alloc[i].buy * tokens[i].ask ELSE 0])

\* payoff_expr of one scenario at an allocation, in ticks
PayoffExpr(tokens, alloc, outcome) ==
    SumSeq([i \in DOMAIN tokens |->
              LET yes == OutcomeGet(outcome, tokens[i].conditionId)
                  coeff == IF tokens[i].outcome = "YES" THEN yes ELSE 1 - yes
              IN  (alloc[i].buy - alloc[i].sell) * coeff * Unit])

\* the variable boxes: buy_var in [0, ask_size], sell_var in [0, bid_size]
RECURSIVE VarBoxes(_, _)
VarBoxes(tokens, settings) ==
    IF tokens = <<>> THEN {<<>>}
    ELSE {<<[buy |-> b, sell |-> s]>> \o rest :
            b \in 0..BuyUpper(Head(tokens)),
            s \in 0..SellUpper(Head(tokens), settings),
            rest \in VarBoxes(Tail(tokens), settings)}

\* the values of the use_var binaries an allocation can be returned with:
\* buy_var <= ask_size * use_var, sell_var <= bid_size * use_var,
\* sum(vars_use) <= max_legs
UseVars(tokens, alloc, settings) ==
    {use \in [DOMAIN tokens -> {0, 1}] :
        /\ \A i \in DOMAIN tokens :
              /\ alloc[i].buy <= BuyUpper(tokens[i]) * use[i]
              /\ alloc[i].sell <= SellUpper(tokens[i], settings) * use[i]
        /\ SumSeq(use) <= settings.maxLegs}

\* the use_var rows exist only when max_legs > 0
LegsWithin(tokens, alloc, settings) ==
    settings.maxLegs > 0 => UseVars(tokens, alloc, settings) # {}

NotionalWithin(tokens, alloc, settings) ==
    (settings.maxNotional > 0 /\ \E i \in DOMAIN tokens : tokens[i].ask > 0) =>
        NotionalExpr(tokens, alloc) <= settings.maxNotional

\* the largest profit_var the scenario rows and its own bounds allow
ProfitAt(outcomes, tokens, alloc, settings) ==
    LET cost == CostExpr(tokens, alloc, settings)
        rows == {PayoffExpr(tokens, alloc, outcomes[k]) - cost : k \in DOMAIN outcomes}
            \cup {ProfitBound}
    IN  SetMin(rows)

\* positions with the noise threshold at one share instead of 1e-9
RECURSIVE PositionsAboveOne(_, _)
PositionsAboveOne(tokens, alloc) ==
    IF tokens = <<>> THEN <<>>
    ELSE LET tok == Head(tokens)
             a == Head(alloc)
             rest == PositionsAboveOne(Tail(tokens), Tail(alloc))
         IN  IF a.buy <= 1 /\ a.sell <= 1 THEN rest
             ELSE <<[tokenId |-> tok.tokenId,
                     conditionId |-> tok.conditionId,
                     outcome |-> tok.outcome,
                     buy |-> a.buy,
                     sell |-> a.sell,
                     ask |-> tok.ask,
                     bid |-> tok.bid,
                     delta |-> a.buy - a.sell]>> \o rest

\* positions: the tokens with buy_val or sell_val above 1e-9, in token order
RECURSIVE Positions(_, _)
Positions(tokens, alloc) ==
    IF tokens = <<>> THEN <<>>
    ELSE LET tok == Head(tokens)
             a == Head(alloc)
             rest == Positions(Tail(tokens), Tail(alloc))
         IN  IF a.buy <= 0 /\ a.sell <= 0 THEN rest
             ELSE <<[tokenId |-> tok.tokenId,
                     conditionId |-> tok.conditionId,
                     outcome |-> tok.outcome,
                     buy |-> a.buy,
                     sell |-> a.sell,
                     ask |-> tok.ask,
                     bid |-> tok.bid,
                     delta |-> a.buy - a.sell]>> \o rest

\* what _solve_portfolio may return when CBC reports a solution: the
\* (profit, positions, cost_value) of a profit-maximizing allocation
SolvePortfolio(outcomes, tokens, settings) ==
    LET feas == {a \in VarBoxes(tokens, settings) :
                    /\ LegsWithin(tokens, a, settings)
                    /\ NotionalWithin(tokens, a, settings)
                    /\ ProfitAt(outcomes, tokens, a, settings) >= 0 - ProfitBound}
        val == [a \in feas |-> ProfitAt(outcomes, tokens, a, settings)]
        opt == SetMax({val[a] : a \in feas})
    IN  {[profit |-> val[a],
          positions |-> Positions(tokens, a),
          cost_value |-> CostExpr(tokens, a, settings)] : a \in {b \in feas : val[b] = opt}}

\* ----------------------------------------------------------------- inputs
Tok(id, cid, side, ask, bid, askSize, bidSize) ==
    [tokenId |-> id, conditionId |-> cid, outcome |-> side, ask |-> ask,
     bid |-> bid, askSize |-> askSize, bidSize |-> bidSize, feeBps |-> 0]

BaseSettings ==
    [minProfit |-> 0, minDepth |-> 0, minDepthUsd |-> 0, allowSells |-> TRUE,
     maxLegs |-> 0, maxNotional |-> 0, feeBps |-> 0, slippageBps |-> 0,
     maxIter |-> MaxIter, tolerance |-> 0, scale |-> 1]

Group(type, k, ids) == [type |-> type, k |-> k, conditionIds |-> ids]

Rel(type, a, b) == [type |-> type, a |-> a, b |-> b]

NoConstraints == [groups |-> <<>>, relations |-> <<>>]

\* constraint sets over the conditions A, B: every group type, a group that
\* cannot be met, groups the builder skips, a group and relations naming the
\* unknown id Z
PairConstraints ==
    {NoConstraints}
    \cup {[groups |-> <<g>>, relations |-> <<>>] :
            g \in {Group("one_of", 1, {"A", "B"}), Group("at_most", 1, {"A", "B"}),
                   Group("at_least", 1, {"A", "B"}), Group("at_least", 3, {"A", "B"}),
                   Group("one_of", 1, {"A", "Z"}), Group("xor", 1, {"Z"}),
                   Group("one_of", 1, {})}}
    \cup {[groups |-> <<>>, relations |-> <<r>>] :
            r \in {Rel("implies", "A", "B"), Rel("mutual_exclusive", "A", "B"),
                   Rel("implies", "A", "Z"), Rel("mutual_exclusive", "Z", "B")}}

TripleConstraints ==
    {[groups |-> <<Group("one_of", 1, {"A", "B", "C"})>>, relations |-> <<>>],
     [groups |-> <<Group("at_most", 1, {"A", "B", "C"})>>,
      relations |-> <<Rel("implies", "A", "B")>>]}

\* one YES token per condition, bought at `ask`, nothing to sell into
YesBook(ids, ask) ==
    [i \in DOMAIN ids |-> Tok(i, ids[i], "YES", ask, 0, MaxSize, 0)]

\* both sides of A quoted two-sided, and a token of an unlisted condition
MixedBook ==
    <<Tok(1, "A", "YES", 30, 20, MaxSize, 1), Tok(2, "A", "NO", 50, 40, 1, 1),
      Tok(3, "B", "YES", 30, 0, MaxSize, 0), Tok(4, "Z", "NO", 90, 0, 1, 0)>>

Payload(conditions, tokens, constraints, settings) ==
    [empty |-> FALSE, conditions |-> conditions, tokens |-> tokens,
     groups |-> constraints.groups, relations |-> constraints.relations,
     settings |-> settings]

\* varied dependency structure, default settings
StructureInputs ==
    {Payload(<<"A", "B">>, t, c, BaseSettings) :
        t \in {YesBook(<<"A", "B">>, 30), MixedBook}, c \in PairConstraints}
    \cup {Payload(<<"A", "B", "C">>, YesBook(<<"A", "B", "C">>, a), c, BaseSettings) :
            a \in {30, 50}, c \in TripleConstraints}

\* varied loop settings: iteration limit, tolerance, acceptance threshold
LoopInputs ==
    {Payload(<<"A", "B", "C">>, YesBook(<<"A", "B", "C">>, 30), c,
             [BaseSettings EXCEPT !.maxIter = m, !.tolerance = tol, !.minProfit = mp]) :
        c \in TripleConstraints, m \in 0..MaxIter, tol \in {0, MaxSize * Unit},
        mp \in {0, 50, 0 - (BestProfitFloor + 1)}}

\* varied depth and depth thresholds
DepthInputs ==
    {Payload(<<"A", "B">>,
             <<Tok(1, "A", "YES", 30, 20, s1, s2), Tok(2, "B", "YES", 30, 0, s3, 0),
               Tok(3, "B", "NO", 0, 0, 1, 1)>>,
             [groups |-> <<>>, relations |-> <<Rel("mutual_exclusive", "A", "B")>>],
             [BaseSettings EXCEPT !.minDepth = md, !.minDepthUsd = mdu,
                                  !.allowSells = sells, !.maxIter = 1]) :
        s1 \in 0..MaxSize, s2 \in 0..1, s3 \in 0..MaxSize,
        md \in {0, 2}, mdu \in {0, 50}, sells \in BOOLEAN}

\* varied optimizer settings
OptimizerInputs ==
    {Payload(<<"A", "B", "C">>, YesBook(<<"A", "B", "C">>, 30),
             [groups |-> <<Group("one_of", 1, {"A", "B", "C"})>>, relations |-> <<>>],
             [BaseSettings EXCEPT !.maxLegs = ml, !.maxNotional = mn, !.feeBps = fee,
                                  !.slippageBps = slip, !.scale = sc]) :
        ml \in {0, 2}, mn \in {0, 60}, fee \in {0, 1000}, slip \in {0, 1000},
        sc \in {0, 1}}

\* nothing to solve: empty payload, no usable condition id, no quoted token
EmptyInputs ==
    {[Payload(<<>>, <<>>, NoConstraints, BaseSettings) EXCEPT !.empty = TRUE]}
    \cup {Payload(c, YesBook(<<"A", "B">>, 30), NoConstraints, BaseSettings) :
            c \in {<<>>, <<"">>, <<"", "">>}}
    \cup {Payload(<<"A", "B">>, t, NoConstraints, BaseSettings) :
            t \in {<<>>, <<Tok(1, "A", "YES", 0, 0, 1, 1)>>}}

\* a crossed quote (bid above ask) and a token quoted on the bid side only,
\* with and without a legs limit
CrossedInputs ==
    {Payload(<<"A", "B">>,
             <<Tok(1, "A", "YES", 30, 40, 1, 1), Tok(2, "B", "YES", 0, 20, 1, 1)>>,
             c, [BaseSettings EXCEPT !.maxLegs = ml, !.allowSells = sells]) :
        c \in {NoConstraints,
               [groups |-> <<Group("one_of", 1, {"A", "B"})>>, relations |-> <<>>]},
        ml \in {0, 1}, sells \in BOOLEAN}

\* an iteration limit above the number of outcomes the conditions allow
LongLoopInputs ==
    {Payload(<<"A", "B">>, YesBook(<<"A", "B">>, a), c,
             [BaseSettings EXCEPT !.maxIter = MaxIter + 3]) :
        a \in {30, 50},
        c \in {NoConstraints,
               [groups |-> <<Group("at_most", 1, {"A", "B"})>>, relations |-> <<>>]}}

\* a tolerance of one share's payout, on books of uneven depth
ToleranceInputs ==
    {Payload(<<"A", "B">>, t, c, [BaseSettings EXCEPT !.tolerance = Unit]) :
        t \in {MixedBook,
               <<Tok(1, "A", "YES", 30, 0, MaxSize, 0), Tok(2, "B", "YES", 30, 0, 1, 0)>>},
        c \in {NoConstraints,
               [groups |-> <<Group("at_least", 1, {"A", "B"})>>, relations |-> <<>>],
               [groups |-> <<>>, relations |-> <<Rel("implies", "A", "B")>>]}}

Inputs ==
    StructureInputs \cup LoopInputs \cup DepthInputs \cup OptimizerInputs
        \cup EmptyInputs \cup CrossedInputs \cup LongLoopInputs
        \cup ToleranceInputs

\* ------------------------------------------------------------------ state
VARIABLES
    data,             \* the input payload, as read
    pc,               \* position in main()
    cond_ids,
    filtered_tokens,
    outcomes,         \* the Scenario Set
    best_profit, best_positions, best_cost, best_outcomes,
    iter,             \* iterations of the robust loop started
    solved,           \* (profit, positions, cost_value) of this iteration
    stdout,           \* the envelopes printed
    fault,            \* an exception left main()
    stop,             \* why the robust loop ended
    calls,            \* solver calls made: seed, optimizer, adversary
    solved_log,       \* every optimizer call that returned, with its scenarios
    adv_log           \* every adversary call: what it was given and what it returned

vars ==
    <<data, pc, cond_ids, filtered_tokens, outcomes, best_profit, best_positions,
      best_cost, best_outcomes, iter, solved, stdout, fault, stop, calls, solved_log,
      adv_log>>

NoSolved == [profit |-> 0, positions |-> <<>>, cost_value |-> 0]

Init ==
    /\ data \in Inputs
    /\ pc = "main"
    /\ cond_ids = <<>>
    /\ filtered_tokens = <<>>
    /\ outcomes = <<>>
    /\ best_profit = 0
    /\ best_positions = <<>>
    /\ best_cost = 0
    /\ best_outcomes = <<>>
    /\ iter = 0
    /\ solved = NoSolved
    /\ stdout = <<>>
    /\ fault = FALSE
    /\ stop = "running"
    /\ calls = [seed |-> 0, optimizer |-> 0, adversary |-> 0]
    /\ solved_log = <<>>
    /\ adv_log = <<>>

Constraints == [groups |-> data.groups, relations |-> data.relations]

Emit(envelope) == stdout' = Append(stdout, envelope)

NoOpportunity == [status |-> "ok", opportunities |-> <<>>]

ErrorEnvelope(msg) == [status |-> "error", error |-> msg]

\* ------------------------------------------------------------------ main()
\* the list comprehension without its "if c.get("id")"
CondIdsUnfiltered(conditions) == conditions

\* cond_ids = [c.get("id") for c in conditions if c.get("id")]
CondIds(conditions) == SelectSeq(conditions, LAMBDA c : c # "")

ParseInput ==
    /\ pc = "main"
    /\ IF data.empty
       THEN /\ Emit(ErrorEnvelope("empty input"))
            /\ pc' = "done"
            /\ UNCHANGED cond_ids
       ELSE /\ cond_ids' = CondIds(data.conditions)
            /\ IF Len(cond_ids') = 0
               THEN Emit(NoOpportunity) /\ pc' = "done"
               ELSE pc' = "filter" /\ UNCHANGED stdout
    /\ UNCHANGED <<data, filtered_tokens, outcomes, best_profit, best_positions,
                   best_cost, best_outcomes, iter, solved, fault, stop, calls,
                   solved_log,
                   adv_log>>

\* the ask depth without the minDepthUsd test
FilteredAskSizeDepthOnly(tok, settings) ==
    IF tok.askSize < settings.minDepth THEN 0 ELSE tok.askSize

\* the ask depth main() writes back into the token
FilteredAskSize(tok, settings) ==
    LET by_depth == IF tok.askSize < settings.minDepth THEN 0 ELSE tok.askSize
    IN  IF settings.minDepthUsd > 0 /\ tok.ask * by_depth < settings.minDepthUsd
        THEN 0 ELSE by_depth

\* the bid depth main() writes back into the token
FilteredBidSize(tok, settings) ==
    LET by_depth == IF tok.bidSize < settings.minDepth \/ ~settings.allowSells
                    THEN 0 ELSE tok.bidSize
    IN  IF settings.minDepthUsd > 0 /\ tok.bid * by_depth < settings.minDepthUsd
        THEN 0 ELSE by_depth

\* the tokens quoted on either side, with their depths filtered
FilterTokenList(tokens, settings) ==
    SelectSeq([i \in DOMAIN tokens |->
                 [tokens[i] EXCEPT !.askSize = FilteredAskSize(tokens[i], settings),
                                   !.bidSize = FilteredBidSize(tokens[i], settings)]],
              LAMBDA tok : tok.ask > 0 \/ tok.bid > 0)

FilterTokens ==
    /\ pc = "filter"
    /\ filtered_tokens' = FilterTokenList(data.tokens, data.settings)
    /\ IF filtered_tokens' = <<>>
       THEN Emit(NoOpportunity) /\ pc' = "done"
       ELSE pc' = "seed_min" /\ UNCHANGED stdout
    /\ UNCHANGED <<data, cond_ids, outcomes, best_profit, best_positions, best_cost,
                   best_outcomes, iter, solved, fault, stop, calls, solved_log,
                   adv_log>>

CpStatuses == {"OPTIMAL", "FEASIBLE", "UNKNOWN"}

\* one pass of "for target in ("min", "max")"
SeedOutcome(target, next) ==
    /\ pc = "seed_" \o target
    /\ calls' = [calls EXCEPT !.seed = @ + 1]
    /\ IF AddConstraintsRaises(Range(cond_ids), Constraints)
       THEN /\ fault' = TRUE
            /\ pc' = "done"
            /\ UNCHANGED outcomes
       ELSE /\ \E status \in CpStatuses :
                 LET found == SolveOutcome(cond_ids, Constraints, target, status)
                 IN  IF found = {}
                     THEN UNCHANGED outcomes
                     ELSE \E outcome \in found :
                            outcomes' = IF InList(outcome, outcomes) THEN outcomes
                                        ELSE Append(outcomes, outcome)
            /\ pc' = next
            /\ UNCHANGED fault
    /\ UNCHANGED <<data, cond_ids, filtered_tokens, best_profit, best_positions,
                   best_cost, best_outcomes, iter, solved, stdout, stop, solved_log,
                   adv_log>>

SeedMin == SeedOutcome("min", "seed_max")

SeedMax == SeedOutcome("max", "seeded")

\* the loop is entered whatever the searches returned
NoSeedIgnored(seeds) == FALSE

\* "if not outcomes"
NoSeed(seeds) == seeds = <<>>

\* the "no feasible outcome" exit and the initial best candidate
InitBest ==
    /\ pc = "seeded"
    /\ IF NoSeed(outcomes)
       THEN /\ Emit(ErrorEnvelope("no feasible outcome"))
            /\ pc' = "done"
            /\ UNCHANGED <<best_profit, best_positions, best_cost, best_outcomes>>
       ELSE /\ best_profit' = 0 - BestProfitFloor
            /\ best_positions' = <<>>
            /\ best_cost' = 0
            /\ best_outcomes' = outcomes
            /\ pc' = "loop"
            /\ UNCHANGED stdout
    /\ UNCHANGED <<data, cond_ids, filtered_tokens, outcomes, iter, solved, fault,
                   stop, calls, solved_log,
                   adv_log>>

\* range(max_iter) is used up
LoopExhausted ==
    /\ pc = "loop"
    /\ iter >= data.settings.maxIter
    /\ stop' = "exhausted"
    /\ pc' = "finish"
    /\ UNCHANGED <<data, cond_ids, filtered_tokens, outcomes, best_profit,
                   best_positions, best_cost, best_outcomes, iter, solved, stdout,
                   fault, calls, solved_log,
                   adv_log>>

\* the candidate of the latest iteration replaces the best one whatever its profit
ImprovesAlways(profit, best) == TRUE

\* the update also on a tie
ImprovesOrTies(profit, best) == profit >= best

\* "if profit > best_profit"
Improves(profit, best) == profit > best

\* "continue" where the code says "break"
OptimizerFailureRetried ==
    /\ pc' = "loop"
    /\ UNCHANGED stop

\* "if not solved: break"
OptimizerFailure ==
    /\ stop' = "optimizer_failed"
    /\ pc' = "finish"

\* the first half of an iteration: _solve_portfolio and the best-candidate update
Optimize ==
    /\ pc = "loop"
    /\ iter < data.settings.maxIter
    /\ iter' = iter + 1
    /\ calls' = [calls EXCEPT !.optimizer = @ + 1]
    /\ \/ /\ OptimizerFailure
          /\ UNCHANGED <<solved, best_profit, best_positions, best_cost,
                         best_outcomes, solved_log>>
       \/ \E s \in SolvePortfolio(outcomes, filtered_tokens, data.settings) :
            /\ solved' = s
            /\ solved_log' = Append(solved_log, [outcomes |-> outcomes, result |-> s])
            /\ IF Improves(s.profit, best_profit)
               THEN /\ best_profit' = s.profit
                    /\ best_positions' = s.positions
                    /\ best_cost' = s.cost_value
                    /\ best_outcomes' = outcomes
               ELSE UNCHANGED <<best_profit, best_positions, best_cost, best_outcomes>>
            /\ pc' = "adversary"
            /\ UNCHANGED stop
    /\ UNCHANGED <<data, cond_ids, filtered_tokens, outcomes, stdout, fault, adv_log>>

\* the convergence test without the tolerance
ConvergedNoTolerance(worst_profit, tol, profit) == worst_profit >= profit

\* the convergence test with a strict inequality
ConvergedStrictly(worst_profit, tol, profit) == worst_profit + tol > profit

\* "if worst_profit + tol >= profit"
Converged(worst_profit, tol, profit) == worst_profit + tol >= profit

\* one call of _solve_worst_outcome: the candidate it was given, the CP-SAT
\* status it ended with, and the outcome it returned (none: the empty list)
AdversaryCall(candidate, status, returned) ==
    [candidate |-> candidate, status |-> status, returned |-> returned]

\* the second half of an iteration: _solve_worst_outcome and the convergence test
Adversary ==
    /\ pc = "adversary"
    /\ calls' = [calls EXCEPT !.adversary = @ + 1]
    /\ \E status \in CpStatuses :
         LET found == SolveWorstOutcome(cond_ids, Constraints, solved.positions,
                                        data.settings.scale, status)
         IN  IF found = {}
             THEN /\ adv_log' = Append(adv_log, AdversaryCall(solved, status, <<>>))
                  /\ stop' = "adversary_failed"
                  /\ pc' = "finish"
                  /\ UNCHANGED outcomes
             ELSE \E worst \in found :
                    LET worst_payoff == EvaluatePayoff(solved.positions, worst)
                        worst_profit == worst_payoff - solved.cost_value
                    IN  /\ adv_log' = Append(adv_log,
                                             AdversaryCall(solved, status, <<worst>>))
                        /\ IF Converged(worst_profit, data.settings.tolerance,
                                        solved.profit)
                           THEN /\ stop' = "converged"
                                /\ pc' = "finish"
                                /\ UNCHANGED outcomes
                           ELSE /\ outcomes' = IF InList(worst, outcomes) THEN outcomes
                                               ELSE Append(outcomes, worst)
                                /\ pc' = "loop"
                                /\ UNCHANGED stop
    /\ UNCHANGED <<data, cond_ids, filtered_tokens, best_profit, best_positions,
                   best_cost, best_outcomes, iter, solved, stdout, fault, solved_log>>

\* legs: a BUY leg per bought position, a SELL leg per sold position
RECURSIVE Legs(_)
Legs(positions) ==
    IF positions = <<>> THEN <<>>
    ELSE LET pos == Head(positions)
             buy == IF pos.buy > 0
                    THEN <<[tokenId |-> pos.tokenId, side |-> "BUY",
                            price |-> pos.ask, shares |-> pos.buy]>>
                    ELSE <<>>
             sell == IF pos.sell > 0
                     THEN <<[tokenId |-> pos.tokenId, side |-> "SELL",
                             price |-> pos.bid, shares |-> pos.sell]>>
                     ELSE <<>>
         IN  buy \o sell \o Legs(Tail(positions))

\* the acceptance test against 0 instead of min_profit
BelowZero(profit, min_profit) == profit < 0

\* "if best_profit < min_profit"
BelowThreshold(profit, min_profit) == profit < min_profit

Finish ==
    /\ pc = "finish"
    /\ IF BelowThreshold(best_profit, data.settings.minProfit)
       THEN Emit(NoOpportunity)
       ELSE Emit([status |-> "ok",
                  opportunities |-> <<[guaranteedProfit |-> best_profit,
                                       cost |-> best_cost,
                                       legs |-> Legs(best_positions),
                                       outcomes |-> best_outcomes]>>])
    /\ pc' = "done"
    /\ UNCHANGED <<data, cond_ids, filtered_tokens, outcomes, best_profit,
                   best_positions, best_cost, best_outcomes, iter, solved, fault,
                   stop, calls, solved_log,
                   adv_log>>

Next ==
    \/ ParseInput
    \/ FilterTokens
    \/ SeedMin
    \/ SeedMax
    \/ InitBest
    \/ LoopExhausted
    \/ Optimize
    \/ Adversary
    \/ Finish

Spec == Init /\ [][Next]_vars

\* main() runs to its end: every step that can be taken is taken
FairSpec == Spec /\ WF_vars(Next)

\* ------------------------------------------------------- reading the run
Done == pc = "done"

\* the opportunities printed so far
Opportunities ==
    {stdout[i].opportunities[1] :
        i \in {j \in DOMAIN stdout :
                 stdout[j].status = "ok" /\ stdout[j].opportunities # <<>>}}

\* the best candidate has been initialised (line 320 has run)
BestRecorded == pc \in {"loop", "adversary", "finish"} \/ (Done /\ stop # "running")

TrueCount(o, ids) == Cardinality({c \in ids \cap DOMAIN o : o[c] = 1})

\* an outcome meets a group of the input, as the data model defines the kinds
MeetsGroup(o, g) ==
    /\ (g.type = "one_of" /\ g.conditionIds # {}) => TrueCount(o, g.conditionIds) = 1
    /\ (g.type = "at_most" /\ g.conditionIds # {}) => TrueCount(o, g.conditionIds) <= g.k
    /\ (g.type = "at_least" /\ g.conditionIds # {}) => TrueCount(o, g.conditionIds) >= g.k

\* an outcome meets a relation of the input; a relation naming an id that is
\* no condition constrains nothing
MeetsRelation(o, r) ==
    ({r.a, r.b} \subseteq DOMAIN o) =>
        /\ r.type = "implies" => (o[r.a] = 1 => o[r.b] = 1)
        /\ r.type = "mutual_exclusive" => ~(o[r.a] = 1 /\ o[r.b] = 1)

\* a total 0/1 assignment over the condition ids meeting the whole input
IsOutcomeOfModel(o) ==
    /\ DOMAIN o = Range(cond_ids)
    /\ \A c \in DOMAIN o : o[c] \in {0, 1}
    /\ \A i \in DOMAIN data.groups : MeetsGroup(o, data.groups[i])
    /\ \A i \in DOMAIN data.relations : MeetsRelation(o, data.relations[i])

ModelOutcomes == {o \in [Range(cond_ids) -> {0, 1}] : IsOutcomeOfModel(o)}

TokenOf(id) == CHOOSE t \in Range(data.tokens) : t.tokenId = id

\* what one share of a token pays under an outcome, in ticks
SharePayoff(tok, o) ==
    LET truth == IF tok.conditionId \in DOMAIN o THEN o[tok.conditionId] ELSE 0
    IN  IF tok.outcome = "YES" THEN truth * Unit ELSE (1 - truth) * Unit

\* payoff of emitted legs under an outcome
LegsPayoff(legs, o) ==
    SumSeq([i \in DOMAIN legs |->
              (IF legs[i].side = "BUY" THEN legs[i].shares ELSE 0 - legs[i].shares)
                * SharePayoff(TokenOf(legs[i].tokenId), o)])

\* payoff of a list of positions under an outcome
PositionsPayoff(positions, o) ==
    SumSeq([i \in DOMAIN positions |->
              (positions[i].buy - positions[i].sell)
                * SharePayoff(TokenOf(positions[i].tokenId), o)])

\* ------------------------------------------------------------------ claims

\* C1: every returned opportunity is robust: under EVERY outcome that meets
\* all groups and relations of the input, payoff(legs, outcome) - cost >=
\* guaranteedProfit - tolerance, however the loop ended.
C1_RobustGuarantee ==
    \A opp \in Opportunities : \A o \in ModelOutcomes :
        LegsPayoff(opp.legs, o) - opp.cost
            >= opp.guaranteedProfit - data.settings.tolerance

\* C2: in every state of the loop the four best_* values come from one
\* optimizer call, best_outcomes is the Scenario Set that call was given, every
\* outcome o of best_outcomes has payoff(best_positions, o) - best_cost >=
\* best_profit - tolerance, and an emitted opportunity reports exactly that set.
\* Before the first optimizer call returns, the four values are the initial
\* candidate: no position, cost 0, and the seed outcomes.
C2_CertifiedAgainstScenarioSet ==
    BestRecorded =>
        /\ \A k \in DOMAIN best_outcomes :
              PositionsPayoff(best_positions, best_outcomes[k]) - best_cost
                  >= best_profit - data.settings.tolerance
        /\ IF solved_log = <<>>
           THEN /\ best_positions = <<>>
                /\ best_cost = 0
                /\ best_outcomes = outcomes
           ELSE \E i \in DOMAIN solved_log :
                    /\ solved_log[i].outcomes = best_outcomes
                    /\ solved_log[i].result.profit = best_profit
                    /\ solved_log[i].result.positions = best_positions
                    /\ solved_log[i].result.cost_value = best_cost
        /\ \A opp \in Opportunities :
              /\ opp.outcomes = best_outcomes
              /\ opp.guaranteedProfit = best_profit
              /\ opp.cost = best_cost

\* C2 witness: an opportunity was emitted for a candidate with positions, after
\* the Scenario Set had grown past the set that candidate was certified against.
C2_Witness ==
    /\ Done
    /\ Opportunities # {}
    /\ best_positions # <<>>
    /\ Len(solved_log) >= 2
    /\ Len(outcomes) > Len(best_outcomes)

\* C3: the loop makes at most maxIter optimizer calls and at most maxIter
\* adversary calls after the two seeding calls, and every solve ends in a
\* terminal state that has emitted a result.
C3_TerminatesWithResult ==
    /\ calls.seed <= 2
    /\ calls.optimizer <= Max2(data.settings.maxIter, 0)
    /\ calls.adversary <= Max2(data.settings.maxIter, 0)
    /\ Done => Len(stdout) = 1

\* C4: with the solver answers fixed, a run with a larger maxIter continues the
\* run with a smaller one (the loop body never reads maxIter), and from one
\* step of the loop to the next the best profit never decreases: the longer
\* run's best profit is at least the shorter run's.
C4_BestProfitMonotone ==
    [][BestRecorded => best_profit' >= best_profit]_vars

\* C4 witness: a later iteration produced a candidate with a lower profit than
\* the best one, which was kept.
C4_Witness ==
    /\ Len(solved_log) >= 2
    /\ solved.profit < best_profit
    /\ best_profit = solved_log[1].result.profit

\* a token too thin to buy, by the thresholds of the input
ThinAsk(tok) ==
    \/ tok.askSize < data.settings.minDepth
    \/ data.settings.minDepthUsd > 0 /\ tok.ask * tok.askSize < data.settings.minDepthUsd

\* a token too thin to sell, by the thresholds of the input
ThinBid(tok) ==
    \/ tok.bidSize < data.settings.minDepth
    \/ data.settings.minDepthUsd > 0 /\ tok.bid * tok.bidSize < data.settings.minDepthUsd

\* every candidate the optimizer has returned, and the best one
AllPositions ==
    Range(solved.positions) \cup Range(best_positions)
        \cup UNION {Range(solved_log[i].result.positions) : i \in DOMAIN solved_log}

AllLegs == UNION {Range(opp.legs) : opp \in Opportunities}

\* C5: a token whose ask depth is below minDepth, or whose ask notional is
\* below a positive minDepthUsd, is bought in no candidate and no emitted leg;
\* the same for bid depth and selling.
C5_DepthFiltering ==
    \A tok \in Range(data.tokens) :
        /\ ThinAsk(tok) =>
              /\ \A pos \in AllPositions : pos.tokenId = tok.tokenId => pos.buy = 0
              /\ \A leg \in AllLegs : leg.tokenId = tok.tokenId => leg.side # "BUY"
        /\ ThinBid(tok) =>
              /\ \A pos \in AllPositions : pos.tokenId = tok.tokenId => pos.sell = 0
              /\ \A leg \in AllLegs : leg.tokenId = tok.tokenId => leg.side # "SELL"

\* C5 witness: an opportunity with legs was emitted while a quoted token deep
\* enough by minDepth was too thin to buy by its notional, and a token with bid
\* depth was too thin to sell although selling was allowed.
C5_Witness ==
    /\ Done
    /\ AllLegs # {}
    /\ \E tok \in Range(data.tokens) :
          /\ tok.ask > 0 /\ tok.askSize >= data.settings.minDepth
          /\ ThinAsk(tok)
    /\ \E tok \in Range(data.tokens) :
          /\ tok.bid > 0 /\ tok.bidSize > 0 /\ data.settings.allowSells
          /\ ThinBid(tok)

NoConditionIds == \A i \in DOMAIN data.conditions : data.conditions[i] = ""

NoCalls == calls = [seed |-> 0, optimizer |-> 0, adversary |-> 0]

\* C6 as stated: with no conditions supplied, or an empty payload, the solve
\* answers status ok with no opportunity and calls no solver.
C6_EmptyInputIsOk ==
    (data.empty \/ NoConditionIds) =>
        /\ NoCalls
        /\ ~fault
        /\ Done => stdout = <<NoOpportunity>>

\* C6 amended: a non-empty payload that supplies no condition id (list missing,
\* empty, or only entries without an id) answers status ok with no opportunity;
\* an empty payload answers status error "empty input"; neither calls a solver.
C6_NoConditions ==
    /\ (~data.empty /\ NoConditionIds) =>
          /\ NoCalls
          /\ ~fault
          /\ pc \in {"main", "done"}
          /\ Done => stdout = <<NoOpportunity>>
    /\ data.empty =>
          /\ NoCalls
          /\ ~fault
          /\ pc \in {"main", "done"}
          /\ Done => stdout = <<ErrorEnvelope("empty input")>>

\* C6 witness: a solve of conditions that all lack an id has ended, quoted
\* tokens notwithstanding.
C6_Witness ==
    /\ Done
    /\ ~data.empty
    /\ data.conditions # <<>>
    /\ NoConditionIds
    /\ data.tokens # <<>>
    /\ stdout = <<NoOpportunity>>

\* C7: every solve, groups and relations naming unknown ids included, ends by
\* emitting exactly one envelope of status ok or error, and never in a fault.
C7_OneEnvelopeOnEveryPath ==
    /\ ~fault
    /\ Len(stdout) <= 1
    /\ \A i \in DOMAIN stdout : stdout[i].status \in {"ok", "error"}
    /\ Done => Len(stdout) = 1

\* the best profit any optimizer call has returned
BestFound ==
    IF solved_log = <<>> THEN 0 - BestProfitFloor
    ELSE SetMax({solved_log[i].result.profit : i \in DOMAIN solved_log})

\* the loop has been left
LoopEnded == stop # "running"

\* C8: an emitted opportunity has guaranteedProfit >= minProfit, and a solve
\* whose best profit found is below minProfit (none found included) answers
\* status ok with no opportunity.
C8_MinProfitAcceptance ==
    /\ \A opp \in Opportunities : opp.guaranteedProfit >= data.settings.minProfit
    /\ (Done /\ LoopEnded /\ BestFound < data.settings.minProfit) =>
          stdout = <<NoOpportunity>>

\* C8 witness: the optimizer returned candidates, the best of them below a
\* positive minProfit, and the solve ended without an opportunity.
C8_Witness ==
    /\ Done
    /\ LoopEnded
    /\ solved_log # <<>>
    /\ data.settings.minProfit > 0
    /\ BestFound < data.settings.minProfit
    /\ stdout = <<NoOpportunity>>

\* C9: every outcome of the Scenario Set, of best_outcomes and of an emitted
\* opportunity is a total 0/1 assignment over the condition ids that meets
\* every group and every relation of the input.
C9_FeasibilityInvariant ==
    \A o \in Range(outcomes) \cup Range(best_outcomes)
                \cup UNION {Range(opp.outcomes) : opp \in Opportunities} :
        IsOutcomeOfModel(o)

\* C9 witness: under a group with a lower bound, the adversary added an outcome
\* to the seeds and an opportunity was emitted.
C9_Witness ==
    /\ Done
    /\ Opportunities # {}
    /\ Len(outcomes) >= 3
    /\ \E i \in DOMAIN data.groups : data.groups[i].type \in {"one_of", "at_least"}

\* an optimizer call returned no solution
OptimizerFailed == calls.optimizer > Len(solved_log)

\* the loop ended by a solver failure or by using up maxIter
EndedEarly == OptimizerFailed \/ stop \in {"adversary_failed", "exhausted"}

\* the envelope of the best candidate found so far
BestSoFarEnvelope ==
    IF BestFound < data.settings.minProfit THEN NoOpportunity
    ELSE [status |-> "ok",
          opportunities |-> <<[guaranteedProfit |-> BestFound,
                               cost |-> best_cost,
                               legs |-> Legs(best_positions),
                               outcomes |-> best_outcomes]>>]

\* C10: once a solver call of the loop has failed, or maxIter iterations have
\* run, no further solver call is made, and the solve ends with status ok
\* carrying the best candidate found so far (or no opportunity below minProfit).
C10_FailureAndExhaustion ==
    /\ [][EndedEarly => calls' = calls]_vars
    /\ [](EndedEarly =>
            /\ ~fault
            /\ pc \in {"finish", "done"}
            /\ \A i \in DOMAIN stdout : stdout[i].status = "ok"
            /\ Done => (Len(stdout) = 1 /\ stdout[1] = BestSoFarEnvelope))

\* C10 witness: the optimizer failed in the second iteration and the candidate
\* of the first was emitted.
C10_Witness ==
    /\ Done
    /\ OptimizerFailed
    /\ Len(solved_log) >= 1
    /\ Opportunities # {}

\* --------------------------------------------------------------------- C11
Distinct(seq) == \A i, j \in DOMAIN seq : seq[i] = seq[j] => i = j

\* both extreme-outcome searches have run and returned
Seeded == calls.seed = 2 /\ ~fault

\* neither the optimizer nor the adversary has been called
NoLoopCalls == calls.optimizer = 0 /\ calls.adversary = 0

\* the robust loop is about to start its first iteration
LoopStart == pc = "loop" /\ iter = 0

\* C11: when neither extreme-outcome search returned an outcome the solve ends
\* with the error envelope "no feasible outcome", and neither the optimizer nor
\* the adversary is ever called; when a search returned one, the loop starts
\* with one or two distinct seed outcomes.
C11_InfeasibleSeeding ==
    /\ (Seeded /\ outcomes = <<>>) =>
          /\ pc \in {"seeded", "done"}
          /\ Done => stdout = <<ErrorEnvelope("no feasible outcome")>>
          /\ NoLoopCalls
    /\ LoopStart =>
          /\ Len(outcomes) \in {1, 2}
          /\ Distinct(outcomes)
          /\ \A i \in DOMAIN outcomes : IsOutcomeOfModel(outcomes[i])
    /\ (Done /\ ErrorEnvelope("no feasible outcome") \in Range(stdout)) =>
          outcomes = <<>> /\ NoLoopCalls

\* both searches came back empty-handed and the solve ended in the error
C11_Witness ==
    /\ Done
    /\ Seeded
    /\ outcomes = <<>>
    /\ stdout = <<ErrorEnvelope("no feasible outcome")>>

\* --------------------------------------------------------------------- C12
\* the loop was left through one of the two exits that follow the adversary
ConvergedStop == stop \in {"converged", "adversary_failed"}

\* the step is a call of the adversary
AdversaryStep == calls'.adversary = calls.adversary + 1

\* worstProfit of an adversary call that returned an outcome
WorstProfitOf(call) ==
    PositionsPayoff(call.candidate.positions, call.returned[1])
        - call.candidate.cost_value

\* the stopping condition of an adversary call, as the protocol states it
StopsOn(call) ==
    \/ call.returned = <<>>
    \/ WorstProfitOf(call) + data.settings.tolerance >= call.candidate.profit

\* C12: every adversary call is given the candidate the optimizer computed in
\* the same iteration; the loop stops as converged exactly when that call
\* returned no outcome or worstProfit + tolerance >= masterProfit, with
\* worstProfit = payoff(candidate, adversary outcome) - candidate cost;
\* otherwise the adversary outcome is appended to the Scenario Set unless it
\* is there already and control returns to the optimizer; after the loop has
\* converged the optimizer is not called again.
C12_ConvergenceProtocol ==
    /\ [](\A i \in DOMAIN adv_log :
             /\ i \in DOMAIN solved_log
             /\ adv_log[i].candidate = solved_log[i].result)
    /\ [][AdversaryStep =>
            LET call == adv_log'[Len(adv_log')]
            IN  /\ Len(adv_log') = iter
                /\ Len(solved_log) = iter
                /\ call.candidate = solved_log[iter].result
                /\ IF StopsOn(call)
                   THEN /\ pc' = "finish"
                        /\ stop' \in {"converged", "adversary_failed"}
                        /\ outcomes' = outcomes
                   ELSE /\ pc' = "loop"
                        /\ stop' = "running"
                        /\ outcomes' = IF call.returned[1] \in Range(outcomes)
                                       THEN outcomes
                                       ELSE Append(outcomes, call.returned[1])]_vars
    /\ [][ConvergedStop => calls'.optimizer = calls.optimizer]_vars

\* a run whose first adversary call found a losing outcome, so that the
\* optimizer ran again, and whose later call met the stopping condition only
\* thanks to the tolerance
C12_Witness ==
    /\ Done
    /\ stop = "converged"
    /\ Len(adv_log) >= 2
    /\ ~StopsOn(adv_log[1])
    /\ data.settings.tolerance > 0
    /\ LET call == adv_log[Len(adv_log)]
       IN  WorstProfitOf(call) < call.candidate.profit

\* --------------------------------------------------------------------- C13
IsPrefix(s, t) == Len(s) <= Len(t) /\ SubSeq(t, 1, Len(s)) = s

\* the step appends an outcome to the Scenario Set
ScenarioAppended == outcomes' # outcomes

\* C13: the Scenario Set only grows, one outcome at a time and at its end: no
\* outcome is removed or moved; it never holds two outcomes that are equal
\* over the whole condition -> truth mapping; and an append leaves the
\* best_outcomes snapshot recorded earlier as it was.
C13_ScenarioSetGrowth ==
    /\ [](Distinct(outcomes))
    /\ [][/\ IsPrefix(outcomes, outcomes')
          /\ Len(outcomes') <= Len(outcomes) + 1]_vars
    /\ [][(ScenarioAppended /\ BestRecorded) =>
            /\ best_outcomes' = best_outcomes
            /\ IsPrefix(best_outcomes', outcomes')
            /\ Len(best_outcomes') < Len(outcomes')]_vars

\* two seeds, and a third outcome appended by the adversary after the
\* snapshot was taken
C13_Witness ==
    /\ pc = "loop"
    /\ Len(outcomes) = 3
    /\ Len(best_outcomes) = 2
    /\ \E i \in DOMAIN adv_log :
          adv_log[i].returned # <<>> /\ adv_log[i].returned[1] = outcomes[3]

\* --------------------------------------------------------------------- C14
\* the adversary calls that CP-SAT ended as optimal, with an outcome
OptimalCalls ==
    {i \in DOMAIN adv_log : adv_log[i].status = "OPTIMAL" /\ adv_log[i].returned # <<>>}

\* whole-share deltas are exactly representable at any positive scale
Representable == data.settings.scale > 0

\* C14: for a candidate whose deltas are exactly representable at the scale,
\* the outcome _solve_worst_outcome returns as optimal is a feasible outcome
\* that minimizes _evaluate_payoff(positions, outcome) over all feasible
\* outcomes, also when a condition carries YES and NO positions and when a
\* position's conditionId is no condition id.
C14_AdversaryMinimisesPayoff ==
    Representable =>
        \A i \in OptimalCalls :
            LET positions == adv_log[i].candidate.positions
                worst == adv_log[i].returned[1]
            IN  /\ worst \in ModelOutcomes
                /\ \A o \in ModelOutcomes :
                      EvaluatePayoff(positions, worst) <= EvaluatePayoff(positions, o)

\* an optimal call on a candidate holding YES and NO of one condition and a
\* token of an unlisted condition, where the feasible outcomes differ in payoff
C14_Witness ==
    /\ Representable
    /\ \E i \in OptimalCalls :
          LET positions == adv_log[i].candidate.positions
          IN  /\ \E j, k \in DOMAIN positions :
                    /\ positions[j].conditionId = positions[k].conditionId
                    /\ positions[j].outcome = "YES"
                    /\ positions[k].outcome = "NO"
              /\ \E j \in DOMAIN positions :
                    positions[j].conditionId \notin Range(cond_ids)
              /\ \E o \in ModelOutcomes :
                    EvaluatePayoff(positions, adv_log[i].returned[1])
                        < EvaluatePayoff(positions, o)

\* --------------------------------------------------------------------- C15
\* the tokens of a candidate that carry a non-zero buy or sell quantity
TokensUsed(positions) == {positions[i].tokenId : i \in DOMAIN positions}

\* C15: when maxLegs > 0, every candidate the optimizer returns has a non-zero
\* buy or sell quantity on at most maxLegs tokens (the tokens whose "leg
\* enabled" binary is 1), so the legs array of an emitted opportunity has at
\* most maxLegs entries.
C15_MaxLegsLimit ==
    data.settings.maxLegs > 0 =>
        /\ \A i \in DOMAIN solved_log :
              Cardinality(TokensUsed(solved_log[i].result.positions))
                  <= data.settings.maxLegs
        /\ \A opp \in Opportunities : Len(opp.legs) <= data.settings.maxLegs

\* --------------------------------------------------------------------- C16
\* the token as main() kept it, with its depths filtered
KeptToken(id) == CHOOSE t \in Range(filtered_tokens) : t.tokenId = id

KeptIds == {filtered_tokens[i].tokenId : i \in DOMAIN filtered_tokens}

\* C16: every emitted BUY leg has 0 < shares <= the token's filtered askSize
\* and every SELL leg 0 < shares <= its filtered bidSize; no BUY leg is
\* emitted for a token with ask <= 0, no SELL leg for a token with bid <= 0,
\* and no SELL leg at all when allowSells is false.
C16_AllocationWithinDepth ==
    \A leg \in AllLegs :
        /\ leg.tokenId \in KeptIds
        /\ leg.side \in {"BUY", "SELL"}
        /\ leg.side = "BUY" =>
              /\ 0 < leg.shares
              /\ leg.shares <= KeptToken(leg.tokenId).askSize
              /\ TokenOf(leg.tokenId).ask > 0
        /\ leg.side = "SELL" =>
              /\ 0 < leg.shares
              /\ leg.shares <= KeptToken(leg.tokenId).bidSize
              /\ TokenOf(leg.tokenId).bid > 0
              /\ data.settings.allowSells

\* an opportunity with a BUY and a SELL leg was emitted while a kept token
\* had ask depth but no ask price
C16_Witness ==
    /\ Done
    /\ \E leg \in AllLegs : leg.side = "BUY"
    /\ \E leg \in AllLegs : leg.side = "SELL"
    /\ \E id \in KeptIds : KeptToken(id).ask <= 0 /\ KeptToken(id).askSize > 0

\* --------------------------------------------------------------------- C17
\* C17: within a solve the optimizer's profit never rises from one iteration
\* to the next; so the update "profit > best_profit" fires in the first
\* iteration only, and guaranteedProfit, legs, cost and outcomes of an emitted
\* opportunity are those of the first iteration, computed against the seed
\* outcomes alone (once an iteration has succeeded).
C17_FirstIterationWins ==
    /\ \A i, j \in DOMAIN solved_log :
          i < j => solved_log[j].result.profit <= solved_log[i].result.profit
    /\ (BestRecorded /\ solved_log # <<>>) =>
          /\ best_profit = solved_log[1].result.profit
          /\ best_positions = solved_log[1].result.positions
          /\ best_cost = solved_log[1].result.cost_value
          /\ best_outcomes = solved_log[1].outcomes
          /\ Len(best_outcomes) <= 2
    /\ solved_log # <<>> =>
          \A opp \in Opportunities :
              /\ opp.guaranteedProfit = solved_log[1].result.profit
              /\ opp.cost = solved_log[1].result.cost_value
              /\ opp.legs = Legs(solved_log[1].result.positions)
              /\ opp.outcomes = solved_log[1].outcomes

\* an opportunity was emitted after a second iteration whose candidate, with
\* other positions, earned strictly less than the first
C17_Witness ==
    /\ Done
    /\ Opportunities # {}
    /\ Len(solved_log) >= 2
    /\ solved_log[2].result.profit < solved_log[1].result.profit
    /\ solved_log[2].result.positions # solved_log[1].result.positions

\* --------------------------------------------------------------------- C18
\* the Scenario Set the i-th iteration worked on
ScenariosOf(i) == Range(solved_log[i].outcomes)

\* the seed outcomes the loop started from
Seeds == IF solved_log = <<>> THEN Range(outcomes) ELSE ScenariosOf(1)

\* the adversary calls that returned an outcome the Scenario Set already held
KnownOutcomeCalls ==
    {i \in DOMAIN adv_log :
        adv_log[i].returned # <<>> /\ adv_log[i].returned[1] \in ScenariosOf(i)}

\* C18: when the adversary returns an outcome that is already in the Scenario
\* Set, worstProfit + tolerance >= masterProfit holds and the loop stops; so
\* every iteration followed by another one added exactly one new outcome, the
\* optimizer is never run twice on the same Scenario Set, and the number of
\* iterations is at most 1 + the number of feasible outcomes that are no
\* seeds, whatever maxIter is.
C18_KnownOutcomeConverges ==
    /\ \A i \in KnownOutcomeCalls :
          /\ WorstProfitOf(adv_log[i]) + data.settings.tolerance
                >= adv_log[i].candidate.profit
          /\ i = Len(adv_log)
          /\ stop = "converged"
    /\ \A i \in DOMAIN solved_log :
          i > 1 =>
              /\ IsPrefix(solved_log[i - 1].outcomes, solved_log[i].outcomes)
              /\ Len(solved_log[i].outcomes) = Len(solved_log[i - 1].outcomes) + 1
              /\ solved_log[i].outcomes[Len(solved_log[i].outcomes)]
                    \notin ScenariosOf(i - 1)
    /\ calls.optimizer <= 1 + Cardinality(ModelOutcomes \ Seeds)

\* a solve that converged on an outcome it already held, after as many
\* iterations as the bound allows and fewer than maxIter
C18_Witness ==
    /\ Done
    /\ stop = "converged"
    /\ Len(adv_log) \in KnownOutcomeCalls
    /\ calls.optimizer >= 2
    /\ calls.optimizer = 1 + Cardinality(ModelOutcomes \ Seeds)
    /\ calls.optimizer < data.settings.maxIter

====
